---------------------------- MODULE Spec2Model ----------------------------
(***************************************************************************)
(* A model of the synchronization primitives of atomics_and_locks_book:    *)
(*   - ch4.rs: SpinLockFlag, SpinLock<T> and its Guard                     *)
(*   - ch5.rs: OneshotChannel<T> (unified) and channel()/Sender/Receiver   *)
(* Threads interleave at the granularity of one atomic operation or one    *)
(* non-atomic access of the protected cell.  The memory orderings of the   *)
(* source are kept: a non-atomic cell carries the set of threads whose     *)
(* current position happens-after its latest write, and an atomic flag     *)
(* carries whether its current value publishes that write.  A non-atomic   *)
(* access by a thread outside that set is a data race, and its result is   *)
(* a nondeterministic choice.                                              *)
(***************************************************************************)
EXTENDS Integers, Sequences, FiniteSets, TLC

\* ------------------------------------------------------------- bounds
\* number of worker threads that lock the SpinLock (the test spawns 20)
NumWorkers == 3

\* number of threads that share one unified OneshotChannel
NumChanThreads == 2
\* number of distinct payload values a send can carry
NumPayloads == 2
\* number of send / receive / is_message_ready calls made on one channel
MaxCalls == 3
\* how many times each thread locks and unlocks an UnsafeSpinLock
MaxRounds == 2
\* how many messages are sent on a SimpleChannel
MaxSends == 4

\* ------------------------------------------------------------- memory orderings
Releases(order) == order \in {"Release", "AcqRel", "SeqCst"}
Acquires(order) == order \in {"Acquire", "AcqRel", "SeqCst"}

\* the happens-after set of a cell once thread t has loaded, with `order`, a flag
\* value that publishes the cell's latest write (rel) or does not
LoadSync(order, t, hb, rel) == IF Acquires(order) /\ rel THEN hb \cup {t} ELSE hb

\* whether the value that thread t stores with `order` publishes the latest write
StoreRel(order, t, hb) == Releases(order) /\ t \in hb

\* a read-modify-write continues the release sequence of the value it replaces
RmwRel(order, t, hb, rel) == rel \/ StoreRel(order, t, hb)

\* ------------------------------------------------------------- ch4: SpinLock
VARIABLES
    message,             \* OneshotChannel.message: [st, val], st one of uninit, init, moved, dropped
    messageHb,           \* threads positioned after the latest write of message
    is_message_in_use,   \* OneshotChannel.is_message_in_use
    is_message_ready,    \* OneshotChannel.is_message_ready
    readyRel,            \* is_message_ready's current value publishes the latest write of message
    cpc,                 \* position of each thread inside its current call
    carg,                \* the message argument of a thread's send in progress
    cnth,                \* the ordinal of a thread's call in progress among the calls of its kind
    log,                 \* the calls that have returned or panicked, in order
    nSend,               \* number of send calls made
    nRecv,               \* number of receive calls made
    nWrites,             \* number of writes of the slot
    nReads,              \* number of assume_init_read of the slot
    nFinalized,          \* number of assume_init_drop of the slot
    dropped              \* the channel has been destroyed

chanVars == <<message, messageHb, is_message_in_use, is_message_ready, readyRel, cpc, carg, cnth,
              log, nSend, nRecv, nWrites, nReads, nFinalized, dropped>>

VARIABLES
    sMessage,     \* Channel.message: [st, val]
    sMessageHb,   \* threads positioned after the latest write of Channel.message
    sReady,       \* Channel.is_message_ready
    sReadyRel,    \* is_message_ready's current value publishes the latest write of message
    strong,       \* the strong count of the Arc<Channel<T>>
    spc,          \* position of the thread that owns the Sender
    rpc,          \* position of the thread that owns the Receiver
    sArg,         \* the message argument of Sender::send
    rPolled,      \* what the last Receiver::is_message_ready returned
    rResult,      \* how Receiver::receive ended: [kind, val]
    sWrites,      \* number of writes of the slot
    sReads,       \* number of assume_init_read of the slot
    sFinalized,   \* number of assume_init_drop of the slot
    sDestroyed    \* number of times Drop for Channel has run

splitVars == <<sMessage, sMessageHb, sReady, sReadyRel, strong, spc, rpc, sArg, rPolled, rResult,
               sWrites, sReads, sFinalized, sDestroyed>>

VARIABLES
    is_locked,   \* SpinLockFlag.is_locked
    lockRel,     \* is_locked's current value publishes the latest write of value
    value,       \* SpinLock.value, the protected Vec<usize>
    valueHb,     \* threads positioned after the latest write of value
    lpc,         \* position of each thread in its closure
    local,       \* the Vec contents a thread's push has read
    guards,      \* threads that own a live Guard
    nLock,       \* number of SpinLock::lock() calls that have returned
    nUnlock,     \* number of SpinLockFlag::unlock() calls
    observed     \* what the main thread's final iteration saw

lockVars == <<is_locked, lockRel, value, valueHb, lpc, local, guards, nLock, nUnlock, observed>>

VARIABLES
    panicked,    \* threads that have panicked while they owned a Guard
    abandoned    \* threads that have ended without running the destructor of their Guard

exitVars == <<panicked, abandoned>>

VARIABLES
    refs,        \* threads that have a `&mut T` returned by UnsafeSpinLock::lock
    rounds       \* per thread, the number of its UnsafeSpinLock::unlock calls

unsafeVars == <<refs, rounds>>

VARIABLES
    IS_THREAD_A_ACCESSING_S,   \* ch3 seqcst: the flag raised by thread a
    IS_THREAD_B_ACCESSING_S,   \* ch3 seqcst: the flag raised by thread b
    S,                         \* ch3 seqcst: the static String, as the sequence of pushes
    qpc,                       \* ch3 seqcst: position of main, a and b
    seen,                      \* ch3 seqcst: what each thread's load of the other flag returned
    sLocal,                    \* ch3 seqcst: the content of S that a push in progress has read
    printed                    \* ch3 seqcst: what main printed

seqVars == <<IS_THREAD_A_ACCESSING_S, IS_THREAD_B_ACCESSING_S, S, qpc, seen, sLocal, printed>>

VARIABLES
    queue,       \* SimpleChannel.queue, front first
    sentLog,     \* the values passed to SimpleChannel::send, in call order
    recvLog,     \* the values returned by SimpleChannel::receive, in call order
    waiting      \* a receive is blocked in message_ready.wait

simpleVars == <<queue, sentLog, recvLog, waiting>>

\* the components outside ch4's locks and ch5's one-shot channels
restVars == <<seqVars, simpleVars>>

vars == <<lockVars, chanVars, splitVars, exitVars, unsafeVars, restVars>>

\* what the steps of a thread running without a fault leave alone
otherThanLock == <<chanVars, splitVars, exitVars, unsafeVars, restVars>>
otherThanChan == <<lockVars, splitVars, exitVars, unsafeVars, restVars>>
otherThanSplit == <<lockVars, chanVars, exitVars, unsafeVars, restVars>>
otherThanSeq == <<lockVars, chanVars, splitVars, exitVars, unsafeVars, simpleVars>>
otherThanSimple == <<lockVars, chanVars, splitVars, exitVars, unsafeVars, seqVars>>

Main == 0
Workers == 1 .. NumWorkers
LockThreads == Workers \cup {Main}

\* the orderings of compare_exchange_weak(false, true, Acquire, Relaxed) and of unlock's store
LockSuccessOrder == "Acquire"
LockFailureOrder == "Relaxed"
\* a store that publishes nothing, in the place of unlock's release store
UnlockOrderRelaxed == "Relaxed"
UnlockOrder == "Release"

RECURSIVE Prefixes(_)
Prefixes(s) == IF s = <<>> THEN {<<>>} ELSE {s} \cup Prefixes(SubSeq(s, 1, Len(s) - 1))

\* what thread t reads from the protected value: the value itself when the latest
\* write happens-before the read, any earlier content under a data race
ReadValue(t) == IF t \in valueHb THEN {value} ELSE Prefixes(value)

InitLock ==
    /\ is_locked = FALSE
    /\ lockRel = TRUE
    /\ value = <<>>
    /\ valueHb = LockThreads
    /\ lpc = [t \in LockThreads |-> IF t = Main THEN "join" ELSE "lock"]
    /\ local = [t \in LockThreads |-> <<>>]
    /\ guards = {}
    /\ nLock = 0
    /\ nUnlock = 0
    /\ observed = <<>>

\* an exchange that does not compare: a swap(true) in the place of the compare-and-swap
CasIgnoresCurrent(cur) == cur \in BOOLEAN
\* whether the compare of compare_exchange_weak(false, ..) can succeed on cur
CasExpected(cur) == cur = FALSE

\* one iteration of the while loop of SpinLockFlag::lock
SpinLockFlag_lock(t) ==
    /\ lpc[t] = "lock"
    /\ \/ /\ CasExpected(is_locked)
          /\ is_locked' = TRUE
          /\ valueHb' = LoadSync(LockSuccessOrder, t, valueHb, lockRel)
          /\ lockRel' = RmwRel("Relaxed", t, valueHb, lockRel)
          /\ lpc' = [lpc EXCEPT ![t] = "locked"]
       \/ \* the compare fails, or the weak exchange fails spuriously
          /\ valueHb' = LoadSync(LockFailureOrder, t, valueHb, lockRel)
          /\ lpc' = [lpc EXCEPT ![t] = "spin"]
          /\ UNCHANGED <<is_locked, lockRel>>
    /\ UNCHANGED <<value, local, guards, nLock, nUnlock, observed>>
    /\ UNCHANGED otherThanLock

\* std::hint::spin_loop(), then the loop tries again
SpinLoop(t) ==
    /\ lpc[t] = "spin"
    /\ lpc' = [lpc EXCEPT ![t] = "lock"]
    /\ UNCHANGED <<is_locked, lockRel, value, valueHb, local, guards, nLock, nUnlock, observed>>
    /\ UNCHANGED otherThanLock

\* SpinLock::lock after self.protector.lock() has returned: return Guard { guarded: self }
SpinLock_lock(t) ==
    /\ lpc[t] = "locked"
    /\ guards' = guards \cup {t}
    /\ nLock' = nLock + 1
    /\ lpc' = [lpc EXCEPT ![t] = IF t = Main THEN "iter" ELSE "deref"]
    /\ UNCHANGED <<is_locked, lockRel, value, valueHb, local, nUnlock, observed>>
    /\ UNCHANGED otherThanLock

\* Guard::deref_mut and the read half of Vec::push
Guard_deref_mut(t) ==
    /\ lpc[t] = "deref"
    /\ t \in guards
    /\ \E v \in ReadValue(t) : local' = [local EXCEPT ![t] = v]
    /\ lpc' = [lpc EXCEPT ![t] = "push"]
    /\ UNCHANGED <<is_locked, lockRel, value, valueHb, guards, nLock, nUnlock, observed>>
    /\ UNCHANGED otherThanLock

\* the write half of DATA.lock().push(i)
Push(t) ==
    /\ lpc[t] = "push"
    /\ value' = Append(local[t], t)
    /\ valueHb' = {t}
    /\ lockRel' = FALSE
    /\ lpc' = [lpc EXCEPT ![t] = "drop"]
    /\ UNCHANGED <<is_locked, local, guards, nLock, nUnlock, observed>>
    /\ UNCHANGED otherThanLock

\* an unlock that stores Locked
SpinLockFlag_unlock_stores_locked(t) ==
    /\ is_locked' = TRUE
    /\ lockRel' = StoreRel(UnlockOrder, t, valueHb)
    /\ nUnlock' = nUnlock + 1
\* SpinLockFlag::unlock: self.is_locked.store(false, Release)
SpinLockFlag_unlock(t) ==
    /\ is_locked' = FALSE
    /\ lockRel' = StoreRel(UnlockOrder, t, valueHb)
    /\ nUnlock' = nUnlock + 1

\* a Guard whose destruction forgets to unlock
Guard_drop_forgets_unlock(t) ==
    /\ lpc[t] = "drop"
    /\ t \in guards
    /\ guards' = guards \ {t}
    /\ lpc' = [lpc EXCEPT ![t] = "done"]
    /\ UNCHANGED <<is_locked, lockRel, nUnlock, value, valueHb, local, nLock, observed>>
    /\ UNCHANGED otherThanLock
\* Drop for Guard, at the end of the statement that created it
Guard_drop(t) ==
    /\ lpc[t] = "drop"
    /\ t \in guards
    /\ SpinLockFlag_unlock(t)
    /\ guards' = guards \ {t}
    /\ lpc' = [lpc EXCEPT ![t] = "done"]
    /\ UNCHANGED <<value, valueHb, local, nLock, observed>>
    /\ UNCHANGED otherThanLock

\* the end of thread::scope: every spawned thread has been joined
ScopeJoin ==
    /\ lpc[Main] = "join"
    /\ \A w \in Workers : lpc[w] = "done"
    /\ valueHb' = valueHb \cup {Main}
    /\ lpc' = [lpc EXCEPT ![Main] = "lock"]
    /\ UNCHANGED <<is_locked, lockRel, value, local, guards, nLock, nUnlock, observed>>
    /\ UNCHANGED otherThanLock

\* Guard::deref and the iteration of the main thread: for i in DATA.lock().iter()
Guard_deref(t) ==
    /\ lpc[t] = "iter"
    /\ t \in guards
    /\ \E v \in ReadValue(t) : observed' = v
    /\ lpc' = [lpc EXCEPT ![t] = "drop"]
    /\ UNCHANGED <<is_locked, lockRel, value, valueHb, local, guards, nLock, nUnlock>>
    /\ UNCHANGED otherThanLock

NextLock ==
    \/ \E t \in LockThreads : SpinLockFlag_lock(t)
    \/ \E t \in LockThreads : SpinLoop(t)
    \/ \E t \in LockThreads : SpinLock_lock(t)
    \/ \E t \in Workers : Guard_deref_mut(t)
    \/ \E t \in Workers : Push(t)
    \/ \E t \in LockThreads : Guard_drop(t)
    \/ ScopeJoin
    \/ Guard_deref(Main)

\* ------------------------------------------------------------- ch4: claims
\* threads whose SpinLockFlag::lock has returned and that have not yet unlocked
Holders == {t \in LockThreads : lpc[t] \in {"locked", "deref", "push", "iter", "drop"}}

\* C1: in every interleaving of the threads calling SpinLock::lock on one lock, at most
\* one thread holds a Guard at any instant, and no lock() returns while the Guard of an
\* earlier lock() is live.
C1_NoDoubleAcquisition ==
    /\ Cardinality(guards) <= 1
    /\ Cardinality(Holders) <= 1
    /\ \A t \in guards : Holders = {t}

\* C1 witness: a thread owns the Guard while another has tried the lock and is spinning
C1_Witness == \E t \in guards : \E u \in LockThreads \ {t} : lpc[u] = "spin"

\* C2: once every worker has locked once and pushed its own value, the protected
\* sequence holds each of the NumWorkers values exactly once, in some order, and the
\* lock() of the main thread that follows observes all of them.
C2_NoLostUpdate ==
    /\ (\A w \in Workers : lpc[w] = "done") =>
          /\ Len(value) = NumWorkers
          /\ {value[i] : i \in 1 .. Len(value)} = Workers
    /\ lpc[Main] \in {"drop", "done"} =>
          /\ observed = value
          /\ Len(observed) = NumWorkers
          /\ {observed[i] : i \in 1 .. Len(observed)} = Workers

\* C2 witness: the main thread has iterated over all the values and finished
C2_Witness == lpc[Main] = "done" /\ Len(observed) = NumWorkers /\ observed[1] # 1

\* what holds of the Guards in every state
GuardInv ==
    /\ \A t \in guards : lpc[t] \in {"deref", "push", "iter", "drop"}
    /\ guards # {} => is_locked
    /\ nUnlock <= nLock
    /\ nLock - nUnlock = Cardinality(guards)
    /\ (\A t \in LockThreads : lpc[t] = "done") => nLock = NumWorkers + 1 /\ nUnlock = nLock

\* C3: a Guard comes only from a lock() that has succeeded; while a Guard lives the flag
\* is Locked; the flag goes from Locked to Unlocked only in the destruction of the live
\* Guard, which calls unlock once; every lock() that returned is matched by one unlock
\* and no unlock happens without a lock() before it.
C3_GuardLifecycle ==
    [][ /\ GuardInv'
        /\ \A t \in guards' \ guards : lpc[t] = "locked" /\ is_locked /\ nLock' = nLock + 1
        /\ (is_locked /\ ~is_locked') =>
              \E t \in guards : guards' = guards \ {t} /\ nUnlock' = nUnlock + 1
        /\ nUnlock' # nUnlock =>
              \E t \in guards : guards' = guards \ {t} /\ is_locked /\ ~is_locked'
        /\ \A t \in guards \ guards' : nUnlock' = nUnlock + 1 /\ ~is_locked'
      ]_vars

\* C3 witness: one Guard has been destroyed and a later lock() has produced the next
C3_Witness == nUnlock >= 1 /\ guards # {} /\ is_locked


\* ------------------------------------------------------------- ch5: OneshotChannel
ChanThreads == 1 .. NumChanThreads
Payload == 1 .. NumPayloads
\* what a read of uninitialized or racing memory may give besides a payload
Garbage == 0

\* the orderings of send's swap and store, of receive's swap and of is_message_ready's load
SendSwapOrder == "Relaxed"
\* a store that publishes nothing, in the place of send's release store
SendStoreOrderRelaxed == "Relaxed"
SendStoreOrder == "Release"
\* a swap that acquires nothing, in the place of receive's acquire swap
ReceiveSwapOrderRelaxed == "Relaxed"
ReceiveSwapOrder == "Acquire"
IsReadyOrder == "Relaxed"

Uninit == [st |-> "uninit", val |-> Garbage]

\* MaybeUninit::assume_init_read by thread t of slot m, whose latest write thread t is
\* after (hb) or not: the stored value when it is initialized and the write
\* happens-before the read, anything otherwise
AssumeInitRead(t, m, hb) ==
    IF t \in hb /\ m.st \in {"init", "moved"} THEN {m.val} ELSE Payload \cup {Garbage}

\* an entry of the log: thread, operation, outcome, value sent or received, ordinal of
\* the call among the calls of that operation
Entry(t, op, res, val, n) == [t |-> t, op |-> op, res |-> res, val |-> val, n |-> n]

InitChan ==
    /\ message = Uninit
    /\ messageHb = ChanThreads
    /\ is_message_in_use = FALSE
    /\ is_message_ready = FALSE
    /\ readyRel = FALSE
    /\ cpc = [t \in ChanThreads |-> "idle"]
    /\ carg = [t \in ChanThreads |-> Garbage]
    /\ cnth = [t \in ChanThreads |-> 0]
    /\ log = <<>>
    /\ nSend = 0
    /\ nRecv = 0
    /\ nWrites = 0
    /\ nReads = 0
    /\ nFinalized = 0
    /\ dropped = FALSE

\* a thread may start a call on the channel
CanCall(t) == cpc[t] = "idle" /\ ~dropped /\ Len(log) + Cardinality({u \in ChanThreads : cpc[u] # "idle"}) < MaxCalls

\* an is_message_ready that takes the flag: a swap(false) in the place of the load
OneshotChannel_is_message_ready_swaps(t) ==
    /\ CanCall(t)
    /\ is_message_ready' = FALSE
    /\ log' = Append(log, Entry(t, "is_message_ready", IF is_message_ready THEN "true" ELSE "false", Garbage, 0))
    /\ UNCHANGED <<message, messageHb, is_message_in_use, readyRel, cpc, carg, cnth,
                   nSend, nRecv, nWrites, nReads, nFinalized, dropped>>
    /\ UNCHANGED otherThanChan
\* OneshotChannel::is_message_ready
OneshotChannel_is_message_ready(t) ==
    /\ CanCall(t)
    /\ messageHb' = LoadSync(IsReadyOrder, t, messageHb, readyRel)
    /\ log' = Append(log, Entry(t, "is_message_ready", IF is_message_ready THEN "true" ELSE "false", Garbage, 0))
    /\ UNCHANGED <<message, is_message_in_use, is_message_ready, readyRel, cpc, carg, cnth,
                   nSend, nRecv, nWrites, nReads, nFinalized, dropped>>
    /\ UNCHANGED otherThanChan

\* a send that does not look at the old value of is_message_in_use
SendNeverRejects(old) == old \notin BOOLEAN
\* whether send's check of the old value of is_message_in_use rejects the call
SendRejects(old) == old = TRUE

\* a send that loads is_message_in_use and does not set it
OneshotChannel_send_loads(t, v) ==
    /\ CanCall(t)
    /\ nSend' = nSend + 1
    /\ IF SendRejects(is_message_in_use)
       THEN /\ log' = Append(log, Entry(t, "send", "panic", v, nSend + 1))
            /\ UNCHANGED <<cpc, carg, cnth>>
       ELSE /\ cpc' = [cpc EXCEPT ![t] = "send_write"]
            /\ carg' = [carg EXCEPT ![t] = v]
            /\ cnth' = [cnth EXCEPT ![t] = nSend + 1]
            /\ UNCHANGED log
    /\ UNCHANGED <<message, messageHb, is_message_in_use, is_message_ready, readyRel,
                   nRecv, nWrites, nReads, nFinalized, dropped>>
    /\ UNCHANGED otherThanChan
\* OneshotChannel::send, the swap of is_message_in_use and the panic
OneshotChannel_send(t, v) ==
    /\ CanCall(t)
    /\ nSend' = nSend + 1
    /\ is_message_in_use' = TRUE
    /\ IF SendRejects(is_message_in_use)
       THEN /\ log' = Append(log, Entry(t, "send", "panic", v, nSend + 1))
            /\ UNCHANGED <<cpc, carg, cnth>>
       ELSE /\ cpc' = [cpc EXCEPT ![t] = "send_write"]
            /\ carg' = [carg EXCEPT ![t] = v]
            /\ cnth' = [cnth EXCEPT ![t] = nSend + 1]
            /\ UNCHANGED log
    /\ UNCHANGED <<message, messageHb, is_message_ready, readyRel,
                   nRecv, nWrites, nReads, nFinalized, dropped>>
    /\ UNCHANGED otherThanChan

\* OneshotChannel::send, channel_message.write(message)
OneshotChannel_send_write(t) ==
    /\ cpc[t] = "send_write"
    /\ message' = [st |-> "init", val |-> carg[t]]
    /\ messageHb' = {t}
    /\ readyRel' = FALSE
    /\ nWrites' = nWrites + 1
    /\ cpc' = [cpc EXCEPT ![t] = "send_store"]
    /\ UNCHANGED <<is_message_in_use, is_message_ready, carg, cnth, log, nSend, nRecv, nReads,
                   nFinalized, dropped>>
    /\ UNCHANGED otherThanChan

\* OneshotChannel::send, self.is_message_ready.store(true, Release)
OneshotChannel_send_store(t) ==
    /\ cpc[t] = "send_store"
    /\ is_message_ready' = TRUE
    /\ readyRel' = StoreRel(SendStoreOrder, t, messageHb)
    /\ cpc' = [cpc EXCEPT ![t] = "idle"]
    /\ carg' = [carg EXCEPT ![t] = Garbage]
    /\ cnth' = [cnth EXCEPT ![t] = 0]
    /\ log' = Append(log, Entry(t, "send", "ok", carg[t], cnth[t]))
    /\ UNCHANGED <<message, messageHb, is_message_in_use, nSend, nRecv, nWrites, nReads,
                   nFinalized, dropped>>
    /\ UNCHANGED otherThanChan

\* a receive that does not look at the old value of is_message_ready
ReceiveNeverRejects(old) == old \notin BOOLEAN
\* whether receive's check of the old value of is_message_ready rejects the call
ReceiveRejects(old) == old = FALSE

\* OneshotChannel::receive, the swap of is_message_ready and the panic
OneshotChannel_receive(t) ==
    /\ CanCall(t)
    /\ nRecv' = nRecv + 1
    /\ is_message_ready' = FALSE
    /\ messageHb' = LoadSync(ReceiveSwapOrder, t, messageHb, readyRel)
    /\ readyRel' = RmwRel(ReceiveSwapOrder, t, messageHb, readyRel)
    /\ IF ReceiveRejects(is_message_ready)
       THEN /\ log' = Append(log, Entry(t, "receive", "panic", Garbage, nRecv + 1))
            /\ UNCHANGED <<cpc, cnth>>
       ELSE /\ cpc' = [cpc EXCEPT ![t] = "recv_read"]
            /\ cnth' = [cnth EXCEPT ![t] = nRecv + 1]
            /\ UNCHANGED log
    /\ UNCHANGED <<message, is_message_in_use, carg, nSend, nWrites, nReads, nFinalized, dropped>>
    /\ UNCHANGED otherThanChan

\* OneshotChannel::receive, channel_message.assume_init_read()
OneshotChannel_receive_read(t) ==
    /\ cpc[t] = "recv_read"
    /\ \E v \in AssumeInitRead(t, message, messageHb) :
          log' = Append(log, Entry(t, "receive", "ok", v, cnth[t]))
    /\ message' = [message EXCEPT !.st = IF @ = "init" THEN "moved" ELSE @]
    /\ nReads' = nReads + 1
    /\ cpc' = [cpc EXCEPT ![t] = "idle"]
    /\ cnth' = [cnth EXCEPT ![t] = 0]
    /\ UNCHANGED <<messageHb, is_message_in_use, is_message_ready, readyRel, carg, nSend, nRecv,
                   nWrites, nFinalized, dropped>>
    /\ UNCHANGED otherThanChan

\* a destructor that never releases the slot
DropNeverReleases(ready) == ready \notin BOOLEAN
\* whether the destructor releases the slot, given is_message_ready
DropReleases(ready) == ready = TRUE

\* Drop for OneshotChannel: it takes &mut self, so no call is in progress
OneshotChannel_drop ==
    /\ ~dropped
    /\ \A t \in ChanThreads : cpc[t] = "idle"
    /\ dropped' = TRUE
    /\ IF DropReleases(is_message_ready)
       THEN /\ nFinalized' = nFinalized + 1
            /\ message' = [message EXCEPT !.st = "dropped"]
       ELSE UNCHANGED <<nFinalized, message>>
    /\ UNCHANGED <<messageHb, is_message_in_use, is_message_ready, readyRel, cpc, carg, cnth, log,
                   nSend, nRecv, nWrites, nReads>>
    /\ UNCHANGED otherThanChan

NextChannel ==
    \/ \E t \in ChanThreads : OneshotChannel_is_message_ready(t)
    \/ \E t \in ChanThreads : \E v \in Payload : OneshotChannel_send(t, v)
    \/ \E t \in ChanThreads : OneshotChannel_send_write(t)
    \/ \E t \in ChanThreads : OneshotChannel_send_store(t)
    \/ \E t \in ChanThreads : OneshotChannel_receive(t)
    \/ \E t \in ChanThreads : OneshotChannel_receive_read(t)
    \/ OneshotChannel_drop

\* ------------------------------------------------------------- ch5: claims of OneshotChannel
IsEntry(e, op, res) == e.op = op /\ e.res = res
\* number of receive calls logged before position j
ReceivesBefore(j) == Cardinality({m \in 1 .. j - 1 : log[m].op = "receive"})

\* C4: send(v) followed later by receive(), on the same or another thread, returns
\* exactly v: a receive that returns gives the value of a send that returned before it,
\* and the first receive call made after a send has returned does return.
C4_RoundTrip ==
    /\ \A i \in DOMAIN log : IsEntry(log[i], "receive", "ok") =>
          \E j \in 1 .. i - 1 : IsEntry(log[j], "send", "ok") /\ log[j].val = log[i].val
    /\ \A i \in DOMAIN log : \A j \in 1 .. i - 1 :
          (IsEntry(log[j], "send", "ok") /\ log[i].op = "receive" /\ log[i].n = 1) =>
              IsEntry(log[i], "receive", "ok") /\ log[i].val = log[j].val

\* C4 witness: one thread has sent the second payload and another thread has received it
C4_Witness ==
    \E i \in DOMAIN log : \E j \in 1 .. i - 1 :
        /\ IsEntry(log[j], "send", "ok") /\ IsEntry(log[i], "receive", "ok")
        /\ log[i].t # log[j].t /\ log[i].val = 2 /\ log[j].val = 2

\* what the log and the slot show of the sends in every state
OneSendInv ==
    /\ nWrites <= 1
    /\ \A i \in DOMAIN log : log[i].op = "send" => (log[i].res = "ok" <=> log[i].n = 1)
    /\ \A j \in DOMAIN log : IsEntry(log[j], "send", "ok") =>
          /\ message.val = log[j].val
          /\ \A i \in DOMAIN log : IsEntry(log[i], "receive", "ok") =>
                j < i /\ log[i].val = log[j].val

\* C5: every send() made after the first one panics, whether or not the message has been
\* received in between, and the failing call leaves the slot and is_message_ready as
\* they were, so that a receive() afterwards still returns the first value sent.
C5_SecondSendRejected ==
    [][ /\ (nSend' = nSend + 1 /\ nSend >= 1) =>
              /\ Len(log') = Len(log) + 1
              /\ SubSeq(log', 1, Len(log)) = log
              /\ IsEntry(log'[Len(log')], "send", "panic")
              /\ message' = message
              /\ is_message_ready' = is_message_ready
              /\ is_message_in_use' = is_message_in_use
              /\ nWrites' = nWrites
              /\ cpc' = cpc
        /\ OneSendInv'
      ]_vars

\* C5 witness: a send of 1 returned, a send of 2 panicked, and a receive after both
\* returned 1
C5_Witness ==
    /\ Len(log) = 3
    /\ IsEntry(log[1], "send", "ok") /\ log[1].val = 1
    /\ IsEntry(log[2], "send", "panic") /\ log[2].val = 2
    /\ IsEntry(log[3], "receive", "ok") /\ log[3].val = 1

\* no send has published its message
NotPublished == \A j \in DOMAIN log : ~IsEntry(log[j], "send", "ok")

\* C6: a receive() made while no send has published a message panics without reading
\* the slot and leaves the channel as it was, is_message_ready false; the first
\* receive made after a later send has returned still returns what was sent.
C6_EarlyReceiveRejected ==
    [][ /\ (nRecv' = nRecv + 1 /\ NotPublished) =>
              /\ Len(log') = Len(log) + 1
              /\ SubSeq(log', 1, Len(log)) = log
              /\ IsEntry(log'[Len(log')], "receive", "panic")
              /\ message' = message
              /\ nReads' = nReads
              /\ is_message_ready = FALSE /\ is_message_ready' = FALSE
              /\ is_message_in_use' = is_message_in_use
              /\ cpc' = cpc
        /\ \A j \in DOMAIN log' : \A k \in DOMAIN log' :
              (IsEntry(log'[j], "send", "ok") /\ log'[k].op = "receive"
                 /\ log'[k].n = ReceivesBefore(j)' + 1) =>
                  IsEntry(log'[k], "receive", "ok") /\ log'[k].val = log'[j].val
      ]_vars

\* C6 witness: a receive panicked before any message was published, then another
\* thread's send returned and the next receive returned its message
C6_Witness ==
    /\ Len(log) = 3
    /\ IsEntry(log[1], "receive", "panic")
    /\ IsEntry(log[2], "send", "ok") /\ log[2].t # log[1].t
    /\ IsEntry(log[3], "receive", "ok") /\ log[3].val = log[2].val

\* C7: the destruction of the channel finalizes the stored payload once when a send
\* happened and no receive did, and releases nothing when no send happened or the
\* payload was moved out by receive: no leak and no second release.
C7_DropReleasesOnce ==
    dropped =>
        /\ nFinalized = IF (\E j \in DOMAIN log : IsEntry(log[j], "send", "ok"))
                           /\ ~(\E i \in DOMAIN log : IsEntry(log[i], "receive", "ok"))
                        THEN 1 ELSE 0
        /\ message.st # "init"
        /\ nReads + nFinalized = nWrites

\* C7 witness: a channel destroyed after a send and a failed send, its payload finalized
C7_Witness == dropped /\ nFinalized = 1 /\ nSend = 2 /\ nReads = 0 /\ message.st = "dropped"

\* ------------------------------------------------------------- ch4: UnsafeSpinLock
InitUnsafe ==
    /\ refs = {}
    /\ rounds = [t \in Workers |-> 0]

\* UnsafeSpinLock::lock after self.protector.lock() has returned: return &mut *pointer
UnsafeSpinLock_lock(t) ==
    /\ t \in Workers
    /\ lpc[t] = "locked"
    /\ refs' = refs \cup {t}
    /\ nLock' = nLock + 1
    /\ lpc' = [lpc EXCEPT ![t] = "held"]
    /\ UNCHANGED <<is_locked, lockRel, value, valueHb, local, guards, nUnlock, observed>>
    /\ UNCHANGED <<chanVars, splitVars, exitVars, restVars, rounds>>

\* "# Safety": unlock is called by the thread whose lock() returned and that has not
\* unlocked since; its mutable reference ends with the call
UnlockPrecondition(t) == lpc[t] = "held"

\* UnsafeSpinLock::unlock: self.protector.unlock(); the thread then locks again
UnsafeSpinLock_unlock(t) ==
    /\ t \in Workers
    /\ UnlockPrecondition(t)
    /\ SpinLockFlag_unlock(t)
    /\ refs' = refs \ {t}
    /\ rounds' = [rounds EXCEPT ![t] = @ + 1]
    /\ lpc' = [lpc EXCEPT ![t] = IF rounds[t] + 1 < MaxRounds THEN "lock" ELSE "done"]
    /\ UNCHANGED <<value, valueHb, local, guards, nLock, observed>>
    /\ UNCHANGED <<chanVars, splitVars, exitVars, restVars>>

NextUnsafe ==
    \E t \in Workers :
        \/ SpinLockFlag_lock(t)
        \/ SpinLoop(t)
        \/ UnsafeSpinLock_lock(t)
        \/ UnsafeSpinLock_unlock(t)

\* threads between a lock() that has returned and the matching unlock()
UnsafeHolders == {t \in Workers : lpc[t] \in {"locked", "held"}}

\* C20: when unlock() is called only by the thread that holds the lock, at most one
\* thread is between a returned lock() and its matching unlock() at any time; unlock()
\* is one unconditional store of Unlocked, which never blocks or fails.
C20_UnsafeMutualExclusion ==
    [][ /\ Cardinality(UnsafeHolders) <= 1
        /\ refs \subseteq UnsafeHolders
        /\ UnsafeHolders # {} => is_locked
        /\ nLock - nUnlock = Cardinality(refs)
        /\ \A t \in Workers : lpc[t] = "held" => ENABLED UnsafeSpinLock_unlock(t)
        /\ nUnlock' = nUnlock + 1 =>
              /\ ~is_locked'
              /\ UnsafeHolders' = {}
              /\ \E t \in refs : refs' = refs \ {t} /\ lpc'[t] \in {"lock", "done"}
      ]_vars

\* C20 witness: a thread holds the lock for the second time while another thread, which
\* has held it once, spins
C20_Witness ==
    \E t \in Workers : \E u \in Workers \ {t} :
        /\ lpc[t] = "held" /\ rounds[t] = 1 /\ refs = {t}
        /\ lpc[u] = "spin" /\ rounds[u] = 1

\* ------------------------------------------------------------- ch5: concurrent use of OneshotChannel
ReceiveOks == {i \in DOMAIN log : IsEntry(log[i], "receive", "ok")}
Receiving == {t \in ChanThreads : cpc[t] = "recv_read"}
SendOks == {i \in DOMAIN log : IsEntry(log[i], "send", "ok")}
Sending == {t \in ChanThreads : cpc[t] \in {"send_write", "send_store"}}

\* C14: of the receive() calls made on one channel after its send, sequential or
\* concurrent, exactly one returns the message and every other one panics; the payload
\* is moved out of the slot at most once.
C14_AtMostOneReceive ==
    /\ nReads <= 1
    /\ Cardinality(ReceiveOks) + Cardinality(Receiving) <= 1
    /\ nReads = Cardinality(ReceiveOks)
    /\ \A j \in SendOks : \A k \in DOMAIN log :
          (log[k].op = "receive" /\ log[k].n > ReceivesBefore(j)) =>
              IF log[k].n = ReceivesBefore(j) + 1
              THEN IsEntry(log[k], "receive", "ok") /\ log[k].val = log[j].val
              ELSE /\ IsEntry(log[k], "receive", "panic")
                   /\ \/ \E i \in ReceiveOks : log[i].n = ReceivesBefore(j) + 1
                      \/ \E t \in Receiving : cnth[t] = ReceivesBefore(j) + 1

\* C14 witness: after the send two threads received at once; the second call panicked
\* while the first was still moving the message out, which it then returned
C14_Witness ==
    /\ Len(log) = 3
    /\ IsEntry(log[1], "send", "ok")
    /\ IsEntry(log[2], "receive", "panic") /\ log[2].n = 2
    /\ IsEntry(log[3], "receive", "ok") /\ log[3].n = 1 /\ log[3].t # log[2].t

\* C15: when several threads call send() at once, exactly one call wins the swap of
\* is_message_in_use, writes the slot and publishes is_message_ready; every other call
\* panics before it touches the slot, so the slot is written by one thread, once.
C15_OneSendWins ==
    /\ Cardinality(SendOks) + Cardinality(Sending) = IF nSend >= 1 THEN 1 ELSE 0
    /\ nWrites = Cardinality(SendOks) + Cardinality({t \in ChanThreads : cpc[t] = "send_store"})
    /\ Cardinality({i \in DOMAIN log : IsEntry(log[i], "send", "panic")}) =
          IF nSend >= 1 THEN nSend - 1 ELSE 0
    /\ (nSend >= 1 /\ Sending = {}) => nWrites = 1 /\ is_message_in_use
    /\ \A i \in SendOks : log[i].n = 1 /\ message.val = log[i].val

\* C15 witness: a thread has won the swap and not yet written the slot, and the send
\* of another thread has panicked meanwhile
C15_Witness ==
    /\ \E t \in ChanThreads : cpc[t] = "send_write" /\ cnth[t] = 1
          /\ \E i \in DOMAIN log : IsEntry(log[i], "send", "panic") /\ log[i].t # t
    /\ nWrites = 0 /\ nSend = 2

\* C16: with send as three steps (take is_message_in_use, write the slot, set
\* is_message_ready) interleaved with receive, a receive that succeeds reads the slot
\* after the write has completed, never an uninitialized slot or one being written, and
\* is_message_ready is set only after the write.
C16_ReadAfterWrite ==
    /\ \A t \in Receiving :
          /\ message.st = "init" /\ nWrites = 1
          /\ t \in messageHb
          /\ Sending = {}
          /\ AssumeInitRead(t, message, messageHb) = {message.val}
    /\ (is_message_ready /\ ~dropped) => message.st = "init" /\ nWrites = 1 /\ Sending = {}
    /\ \A i \in ReceiveOks : log[i].val \in Payload
    /\ \A t \in ChanThreads : cpc[t] = "send_write" => ~is_message_ready /\ message.st = "uninit"

\* C16 witness: a thread is about to read the slot that another thread wrote
C16_Witness ==
    \E t \in Receiving : \E j \in SendOks : log[j].t # t /\ message = [st |-> "init", val |-> log[j].val]

\* the step in which is_message_ready is called
IsReadyCalled ==
    /\ Len(log') = Len(log) + 1
    /\ log'[Len(log')].op = "is_message_ready"

\* C17: once is_message_ready() has returned true, the first receive() made on the
\* channel does not panic and returns the message sent; is_message_ready() itself
\* changes nothing of the channel.
C17_ReadyThenReceive ==
    [][ /\ IsReadyCalled =>
              /\ UNCHANGED <<message, is_message_in_use, is_message_ready, cpc, carg,
                             nSend, nRecv, nWrites, nReads, nFinalized, dropped>>
              /\ log'[Len(log')].res = IF is_message_ready THEN "true" ELSE "false"
        /\ \A k \in DOMAIN log' : \A i \in 1 .. k - 1 :
              (IsEntry(log'[i], "is_message_ready", "true")
                 /\ log'[k].op = "receive" /\ log'[k].n = 1) =>
                  /\ IsEntry(log'[k], "receive", "ok")
                  /\ \E j \in 1 .. i - 1 : IsEntry(log'[j], "send", "ok") /\ log'[j].val = log'[k].val
      ]_vars

\* C17 witness: a send, then a thread that saw is_message_ready() true and received
C17_Witness ==
    /\ Len(log) = 3
    /\ IsEntry(log[1], "send", "ok")
    /\ IsEntry(log[2], "is_message_ready", "true") /\ log[2].t # log[1].t
    /\ IsEntry(log[3], "receive", "ok") /\ log[3].t = log[2].t /\ log[3].val = log[1].val

\* the stage of the channel: 0 Empty, 1 InUse, 2 Ready, 3 Consumed (a receive has
\* taken is_message_ready and moves, or has moved, the value out)
Stage ==
    IF ~is_message_in_use THEN 0
    ELSE IF is_message_ready THEN 2
    ELSE IF nReads >= 1 \/ Receiving # {} THEN 3
    ELSE 1

\* C19: through send and receive the channel only moves forward, Empty -> InUse ->
\* Ready -> Consumed; while it lives, is_message_ready implies is_message_in_use and a
\* slot that is initialized and not moved out; is_message_ready becomes true at most once.
C19_ForwardOnly ==
    [][ /\ Stage' >= Stage /\ Stage' <= Stage + 1
        /\ ~is_message_in_use => ~is_message_ready /\ message.st = "uninit"
        /\ (is_message_ready /\ ~dropped) => is_message_in_use /\ message.st = "init"
        /\ (Stage = 3 /\ Receiving = {} /\ ~dropped) => message.st = "moved"
        /\ (~is_message_ready /\ is_message_ready') => Stage = 1 /\ SendOks = {} /\ nWrites = 1
      ]_vars

\* C19 witness: the channel is Consumed after a send and a receive, and a later send
\* has been refused
C19_Witness ==
    /\ Stage = 3 /\ message.st = "moved" /\ ~dropped
    /\ Len(log) = 3
    /\ IsEntry(log[2], "receive", "ok")
    /\ IsEntry(log[3], "send", "panic")

\* ------------------------------------------------------------- ch5: send_unchecked, receive_unchecked
SendUncheckedStoreOrder == "Release"

\* "Only call this method once": the caller's side of send_unchecked
SendUncheckedPrecondition == nSend = 0

\* "Only call this method after is_message_ready returns true" and "only call this
\* method once": the caller's side of receive_unchecked, for thread t
ReceiveUncheckedPrecondition(t) ==
    /\ nRecv = 0
    /\ \E i \in DOMAIN log : IsEntry(log[i], "is_message_ready", "true") /\ log[i].t = t

\* OneshotChannel::send_unchecked, maybe_uninit_message.write(message)
OneshotChannel_send_unchecked(t, v) ==
    /\ CanCall(t)
    /\ SendUncheckedPrecondition
    /\ nSend' = nSend + 1
    /\ message' = [st |-> "init", val |-> v]
    /\ messageHb' = {t}
    /\ readyRel' = FALSE
    /\ nWrites' = nWrites + 1
    /\ cpc' = [cpc EXCEPT ![t] = "usend_store"]
    /\ carg' = [carg EXCEPT ![t] = v]
    /\ cnth' = [cnth EXCEPT ![t] = nSend + 1]
    /\ UNCHANGED <<is_message_in_use, is_message_ready, log, nRecv, nReads, nFinalized, dropped>>
    /\ UNCHANGED otherThanChan

\* OneshotChannel::send_unchecked, self.is_message_ready.store(true, Release)
OneshotChannel_send_unchecked_store(t) ==
    /\ cpc[t] = "usend_store"
    /\ is_message_ready' = TRUE
    /\ readyRel' = StoreRel(SendUncheckedStoreOrder, t, messageHb)
    /\ cpc' = [cpc EXCEPT ![t] = "idle"]
    /\ carg' = [carg EXCEPT ![t] = Garbage]
    /\ cnth' = [cnth EXCEPT ![t] = 0]
    /\ log' = Append(log, Entry(t, "send_unchecked", "ok", carg[t], cnth[t]))
    /\ UNCHANGED <<message, messageHb, is_message_in_use, nSend, nRecv, nWrites, nReads,
                   nFinalized, dropped>>
    /\ UNCHANGED otherThanChan

\* OneshotChannel::receive_unchecked: assume_init_read and nothing else; no flag is
\* read or written
OneshotChannel_receive_unchecked(t) ==
    /\ CanCall(t)
    /\ ReceiveUncheckedPrecondition(t)
    /\ nRecv' = nRecv + 1
    /\ \E v \in AssumeInitRead(t, message, messageHb) :
          log' = Append(log, Entry(t, "receive_unchecked", "ok", v, nRecv + 1))
    /\ message' = [message EXCEPT !.st = IF @ = "init" THEN "moved" ELSE @]
    /\ nReads' = nReads + 1
    /\ UNCHANGED <<messageHb, is_message_in_use, is_message_ready, readyRel, cpc, carg, cnth,
                   nSend, nWrites, nFinalized, dropped>>
    /\ UNCHANGED otherThanChan

NextUnchecked ==
    \/ \E t \in ChanThreads : OneshotChannel_is_message_ready(t)
    \/ \E t \in ChanThreads : \E v \in Payload : OneshotChannel_send_unchecked(t, v)
    \/ \E t \in ChanThreads : OneshotChannel_send_unchecked_store(t)
    \/ \E t \in ChanThreads : OneshotChannel_receive_unchecked(t)
    \/ OneshotChannel_drop

\* C18: when send_unchecked and receive_unchecked are called within their documented
\* preconditions and the channel is then destroyed, destruction finalizes the payload
\* only if it was written and not yet consumed: a payload moved out by
\* receive_unchecked is not finalized again, as with send and receive.
C18_UncheckedFinalizedOnce ==
    /\ nFinalized >= 1 => nWrites = 1 /\ nReads = 0
    /\ nReads + nFinalized <= nWrites
    /\ dropped => (nWrites = 1 => nReads + nFinalized = 1)

\* ------------------------------------------------------------- ch5: channel(), Sender, Receiver
\* the thread that owns the Sender and the thread that owns the Receiver
SenderThread == 1
ReceiverThread == 2
SplitThreads == {SenderThread, ReceiverThread}

\* the orderings of Sender::send's store, of Receiver::receive's swap and of
\* Receiver::is_message_ready's load
\* a store that publishes nothing, in the place of Sender::send's release store
SenderStoreOrderRelaxed == "Relaxed"
SenderStoreOrder == "Release"
ReceiverSwapOrder == "Acquire"
ReceiverIsReadyOrder == "Relaxed"

NoResult == [kind |-> "none", val |-> Garbage]

\* channel(): one Channel in an Arc, cloned once
InitSplit ==
    /\ sMessage = Uninit
    /\ sMessageHb = SplitThreads
    /\ sReady = FALSE
    /\ sReadyRel = FALSE
    /\ strong = 2
    /\ spc = "have"
    /\ rpc = "have"
    /\ sArg = Garbage
    /\ rPolled = "none"
    /\ rResult = NoResult
    /\ sWrites = 0
    /\ sReads = 0
    /\ sFinalized = 0
    /\ sDestroyed = 0

\* a destructor of Channel that releases the slot whatever the flag says
ChannelDropAlwaysReleases(ready) == ready \in BOOLEAN
\* whether the destructor of Channel releases the slot, given is_message_ready
ChannelDropReleases(ready) == ready = TRUE

\* the drop of one Arc<Channel<T>>: the last one runs Drop for Channel
ArcDrop ==
    /\ strong' = strong - 1
    /\ IF strong = 1
       THEN /\ sDestroyed' = sDestroyed + 1
            /\ IF ChannelDropReleases(sReady)
               THEN /\ sFinalized' = sFinalized + 1
                    /\ sMessage' = [sMessage EXCEPT !.st = "dropped"]
               ELSE UNCHANGED <<sFinalized, sMessage>>
       ELSE UNCHANGED <<sDestroyed, sFinalized, sMessage>>

\* Sender::send, (*self.channel.message.get()).write(message)
Sender_send(v) ==
    /\ spc = "have"
    /\ sArg' = v
    /\ sMessage' = [st |-> "init", val |-> v]
    /\ sMessageHb' = {SenderThread}
    /\ sReadyRel' = FALSE
    /\ sWrites' = sWrites + 1
    /\ spc' = "send_store"
    /\ UNCHANGED <<sReady, strong, rpc, rPolled, rResult, sReads, sFinalized, sDestroyed>>
    /\ UNCHANGED otherThanSplit

\* Sender::send, self.channel.is_message_ready.store(true, Release)
Sender_send_store ==
    /\ spc = "send_store"
    /\ sReady' = TRUE
    /\ sReadyRel' = StoreRel(SenderStoreOrder, SenderThread, sMessageHb)
    /\ spc' = "send_drop"
    /\ UNCHANGED <<sMessage, sMessageHb, strong, rpc, sArg, rPolled, rResult, sWrites, sReads,
                   sFinalized, sDestroyed>>
    /\ UNCHANGED otherThanSplit

\* the Sender goes out of scope: at the end of send, or without having sent
Sender_drop ==
    /\ spc \in {"have", "send_drop"}
    /\ ArcDrop
    /\ spc' = "gone"
    /\ UNCHANGED <<sMessageHb, sReady, sReadyRel, rpc, sArg, rPolled, rResult, sWrites, sReads>>
    /\ UNCHANGED otherThanSplit

\* Receiver::is_message_ready
Receiver_is_message_ready ==
    /\ rpc = "have"
    /\ rPolled' = IF sReady THEN "true" ELSE "false"
    /\ sMessageHb' = LoadSync(ReceiverIsReadyOrder, ReceiverThread, sMessageHb, sReadyRel)
    /\ UNCHANGED <<sMessage, sReady, sReadyRel, strong, spc, rpc, sArg, rResult, sWrites, sReads,
                   sFinalized, sDestroyed>>
    /\ UNCHANGED otherThanSplit

\* a Receiver::receive that does not look at the old value of is_message_ready
ReceiverNeverRejects(old) == old \notin BOOLEAN
\* whether Receiver::receive's check of the old value of is_message_ready rejects the call
ReceiverRejects(old) == old = FALSE

\* Receiver::receive, the swap of is_message_ready and the panic
Receiver_receive ==
    /\ rpc = "have"
    /\ sReady' = FALSE
    /\ sMessageHb' = LoadSync(ReceiverSwapOrder, ReceiverThread, sMessageHb, sReadyRel)
    /\ sReadyRel' = RmwRel(ReceiverSwapOrder, ReceiverThread, sMessageHb, sReadyRel)
    /\ IF ReceiverRejects(sReady)
       THEN /\ rResult' = [kind |-> "panic", val |-> Garbage]
            /\ rpc' = "unwind"
       ELSE /\ rpc' = "recv_read"
            /\ UNCHANGED rResult
    /\ UNCHANGED <<sMessage, strong, spc, sArg, rPolled, sWrites, sReads, sFinalized, sDestroyed>>
    /\ UNCHANGED otherThanSplit

\* Receiver::receive, (*self.channel.message.get()).assume_init_read()
Receiver_receive_read ==
    /\ rpc = "recv_read"
    /\ \E v \in AssumeInitRead(ReceiverThread, sMessage, sMessageHb) :
          rResult' = [kind |-> "ok", val |-> v]
    /\ sMessage' = [sMessage EXCEPT !.st = IF @ = "init" THEN "moved" ELSE @]
    /\ sReads' = sReads + 1
    /\ rpc' = "recv_drop"
    /\ UNCHANGED <<sMessageHb, sReady, sReadyRel, strong, spc, sArg, rPolled, sWrites,
                   sFinalized, sDestroyed>>
    /\ UNCHANGED otherThanSplit

\* the Receiver goes out of scope: at the end of receive, while its panic unwinds, or
\* without having received
Receiver_drop ==
    /\ rpc \in {"have", "recv_drop", "unwind"}
    /\ ArcDrop
    /\ rpc' = "gone"
    /\ UNCHANGED <<sMessageHb, sReady, sReadyRel, spc, sArg, rPolled, rResult, sWrites, sReads>>
    /\ UNCHANGED otherThanSplit

NextSplit ==
    \/ \E v \in Payload : Sender_send(v)
    \/ Sender_send_store
    \/ Sender_drop
    \/ Receiver_is_message_ready
    \/ Receiver_receive
    \/ Receiver_receive_read
    \/ Receiver_drop

\* ------------------------------------------------------------- ch5: claims of the split channel
\* the step in which Receiver::receive is called
ReceiveCalled == rpc = "have" /\ rpc' \in {"recv_read", "unwind"}

\* C8: when one thread calls Sender::send(v) and the other polls
\* Receiver::is_message_ready until it returns true and then calls Receiver::receive,
\* receive succeeds and returns exactly v in every interleaving, and is_message_ready
\* never returns true before the slot write of send has completed.
C8_SplitRoundTrip ==
    [][ /\ (ReceiveCalled /\ rPolled = "true") => rpc' = "recv_read"
        /\ (rPolled' = "true" /\ rResult'.kind # "none") =>
              rResult' = [kind |-> "ok", val |-> sArg'] /\ sArg' \in Payload
        /\ rPolled' = "true" =>
              /\ sWrites' = 1
              /\ sMessage'.st # "uninit" /\ sMessage'.val = sArg'
              /\ spc' \in {"send_drop", "gone"}
      ]_vars

\* C8 witness: the poll returned true and the receive that followed returned the
\* second payload, while the Sender is still at the end of its send
C8_Witness ==
    /\ rPolled = "true" /\ rResult = [kind |-> "ok", val |-> 2]
    /\ sArg = 2 /\ spc = "send_drop"

\* the Sender has not stored true into is_message_ready
SenderNotPublished == spc \in {"have", "send_store"} \/ (spc = "gone" /\ sWrites = 0)

\* C9: Receiver::receive called before the Sender has published a message panics,
\* does not read the slot, and leaves is_message_ready false.
C9_SplitEarlyReceiveRejected ==
    [][ (ReceiveCalled /\ SenderNotPublished) =>
            /\ rResult' = [kind |-> "panic", val |-> Garbage]
            /\ rpc' = "unwind"
            /\ sReads' = sReads
            /\ sMessage' = sMessage
            /\ sReady = FALSE /\ sReady' = FALSE
      ]_vars

\* C9 witness: receive has panicked while the Sender is between its slot write and its
\* store, the flag still false
C9_Witness ==
    /\ rResult.kind = "panic" /\ rpc = "unwind"
    /\ spc = "send_store" /\ sWrites = 1 /\ ~sReady

\* the handles that are not gone yet
LiveHandles == (IF spc = "gone" THEN 0 ELSE 1) + (IF rpc = "gone" THEN 0 ELSE 1)

\* C10: in every ordering of send or the drop of the Sender with receive (successful or
\* failed) or the drop of the Receiver, the shared record is destroyed once, only after
\* both handles are gone, and its destruction finalizes the payload exactly when it was
\* sent and not received; the slot is written at most once and a sent payload is
\* released once, by receive or by the destruction, never leaked, never released twice.
C10_SharedRecordDestroyedOnce ==
    /\ strong = LiveHandles
    /\ sDestroyed = IF LiveHandles = 0 THEN 1 ELSE 0
    /\ sWrites <= 1
    /\ sReads + sFinalized <= sWrites
    /\ sDestroyed = 0 => sFinalized = 0
    /\ sDestroyed = 1 =>
          /\ sFinalized = IF sWrites = 1 /\ sReads = 0 THEN 1 ELSE 0
          /\ sReads + sFinalized = sWrites
          /\ sMessage.st # "init"

\* C10 witness: receive failed, the Receiver went away, then the message was sent, and
\* the Sender's drop destroyed the record and finalized the payload
C10_Witness ==
    /\ sDestroyed = 1 /\ sFinalized = 1 /\ sWrites = 1 /\ sReads = 0
    /\ rResult.kind = "panic" /\ sMessage.st = "dropped"

\* ------------------------------------------------------------- ch4: scheduling
\* the next step of thread t in safe_spin_lock
LockStep(t) ==
    \/ SpinLockFlag_lock(t)
    \/ SpinLoop(t)
    \/ SpinLock_lock(t)
    \/ (t \in Workers /\ (Guard_deref_mut(t) \/ Push(t)))
    \/ Guard_drop(t)
    \/ (t = Main /\ (ScopeJoin \/ Guard_deref(t)))

\* every thread keeps running, and a weak exchange on an Unlocked flag that nobody else
\* takes does not fail spuriously for ever
LockFairness ==
    \A t \in LockThreads :
        /\ WF_vars(LockStep(t))
        /\ SF_vars(SpinLockFlag_lock(t) /\ lpc'[t] = "locked")

\* C11: when every thread calls lock() once and drops the Guard it got after finitely
\* many steps, then under fair scheduling every thread eventually owns the Guard, a
\* failed exchange being retried, and all threads eventually finish.
C11_EveryThreadAcquires ==
    /\ \A t \in LockThreads : <>(t \in guards)
    /\ <>[](\A t \in LockThreads : lpc[t] = "done")

\* C11 witness: every thread has had the Guard and has finished
C11_Witness ==
    /\ \A t \in LockThreads : lpc[t] = "done"
    /\ nLock = NumWorkers + 1 /\ nUnlock = nLock /\ ~is_locked

\* ------------------------------------------------------------- ch4: exit paths of the critical section
InitExit ==
    /\ panicked = {}
    /\ abandoned = {}

\* a panic that ends the thread without unwinding: no destructor of a local runs
Panic_without_unwinding(t) ==
    /\ lpc[t] = "deref"
    /\ t \in guards
    /\ panicked' = panicked \cup {t}
    /\ lpc' = [lpc EXCEPT ![t] = "done"]
    /\ UNCHANGED <<is_locked, lockRel, value, valueHb, local, guards, nLock, nUnlock, observed>>
    /\ UNCHANGED <<chanVars, splitVars, unsafeVars, restVars, abandoned>>
\* panic!() while the Guard is a live local of the closure: the unwinding runs the
\* destructors of the locals, so Drop for Guard is the thread's next step
Panic(t) ==
    /\ lpc[t] = "deref"
    /\ t \in guards
    /\ panicked' = panicked \cup {t}
    /\ lpc' = [lpc EXCEPT ![t] = "drop"]
    /\ UNCHANGED <<is_locked, lockRel, value, valueHb, local, guards, nLock, nUnlock, observed>>
    /\ UNCHANGED <<chanVars, splitVars, unsafeVars, restVars, abandoned>>

\* the thread ends while it owns the Guard and no destructor runs
Abandon(t) ==
    /\ lpc[t] = "deref"
    /\ t \in guards
    /\ abandoned' = abandoned \cup {t}
    /\ lpc' = [lpc EXCEPT ![t] = "dead"]
    /\ UNCHANGED <<is_locked, lockRel, value, valueHb, local, guards, nLock, nUnlock, observed>>
    /\ UNCHANGED <<chanVars, splitVars, unsafeVars, restVars, panicked>>

\* the main thread of poison_spin_lock locks without joining the threads it spawned
MainProceeds ==
    /\ lpc[Main] = "join"
    /\ lpc' = [lpc EXCEPT ![Main] = "lock"]
    /\ UNCHANGED <<is_locked, lockRel, value, valueHb, local, guards, nLock, nUnlock, observed>>
    /\ UNCHANGED otherThanLock

\* the next step of thread t in poison_spin_lock
PoisonStep(t) ==
    \/ SpinLockFlag_lock(t)
    \/ SpinLoop(t)
    \/ SpinLock_lock(t)
    \/ (t \in Workers /\ (Guard_deref_mut(t) \/ Push(t) \/ Panic(t)))
    \/ Guard_drop(t)
    \/ (t = Main /\ (MainProceeds \/ Guard_deref(t)))

NextPanic ==
    \/ \E t \in LockThreads : SpinLockFlag_lock(t)
    \/ \E t \in LockThreads : SpinLoop(t)
    \/ \E t \in LockThreads : SpinLock_lock(t)
    \/ \E t \in Workers : Guard_deref_mut(t)
    \/ \E t \in Workers : Push(t)
    \/ \E t \in Workers : Panic(t)
    \/ \E t \in LockThreads : Guard_drop(t)
    \/ MainProceeds
    \/ Guard_deref(Main)

NextPoison ==
    \/ \E t \in LockThreads : SpinLockFlag_lock(t)
    \/ \E t \in LockThreads : SpinLoop(t)
    \/ \E t \in LockThreads : SpinLock_lock(t)
    \/ \E t \in Workers : Guard_deref_mut(t)
    \/ \E t \in Workers : Push(t)
    \/ \E t \in Workers : Panic(t)
    \/ \E t \in Workers : Abandon(t)
    \/ \E t \in LockThreads : Guard_drop(t)
    \/ MainProceeds
    \/ Guard_deref(Main)

PanicFairness ==
    \A t \in LockThreads :
        /\ WF_vars(PoisonStep(t))
        /\ SF_vars(SpinLockFlag_lock(t) /\ lpc'[t] = "locked")

\* C12: once a thread that owns the Guard has ended without running the Guard's
\* destructor, the flag stays Locked, no lock() returns any more, and every thread
\* inside lock() stays inside it: nothing poisons or recovers the lock.
C12_AbandonedLockStaysLocked ==
    [][ abandoned # {} =>
            /\ is_locked /\ is_locked'
            /\ nLock' = nLock /\ nUnlock' = nUnlock
            /\ guards' = guards /\ guards = abandoned
            /\ \A u \in LockThreads :
                  /\ lpc[u] \in {"lock", "spin"} => lpc'[u] \in {"lock", "spin"}
                  /\ lpc'[u] # "locked"
      ]_vars

\* C12 witness: a thread has ended with the Guard and every other thread is spinning
C12_Witness ==
    /\ abandoned # {}
    /\ \A u \in LockThreads \ abandoned : lpc[u] \in {"spin", "done"}
    /\ lpc[Main] = "spin"
    /\ \E u \in Workers : u \in panicked /\ lpc[u] = "done"

SeqMain == "main"
SeqThreads == {"a", "b"}

\* a load that is not sequentially consistent
SeqLoadOrderAcquire == "Acquire"
\* the orderings of the flag operations of seqcst
SeqStoreOrder == "SeqCst"
SeqLoadOrder == "SeqCst"

\* a thread that has not loaded the other flag yet
NotLoaded == "none"

InitSeq ==
    /\ IS_THREAD_A_ACCESSING_S = FALSE
    /\ IS_THREAD_B_ACCESSING_S = FALSE
    /\ S = <<>>
    /\ qpc = [t \in SeqThreads \cup {SeqMain} |-> IF t = SeqMain THEN "spawn_a" ELSE "unspawned"]
    /\ seen = [t \in SeqThreads |-> NotLoaded]
    /\ sLocal = [t \in SeqThreads |-> <<>>]
    /\ printed = <<>>

\* the flag that thread t reads: the one raised by the other thread
OtherFlag(t) == IF t = "a" THEN IS_THREAD_B_ACCESSING_S ELSE IS_THREAD_A_ACCESSING_S

\* the values a load of a flag whose current value is cur can return: with store and
\* load both SeqCst the load is after the store in the single total order whenever the
\* store has been done; otherwise the store of the other thread does not happen-before
\* the load, which may still return the initial false
LoadFlag(storeOrder, loadOrder, cur) ==
    IF storeOrder = "SeqCst" /\ loadOrder = "SeqCst" THEN {cur} ELSE {cur, FALSE}

\* let a = thread::spawn(..), then let b = thread::spawn(..)
SeqSpawn ==
    /\ qpc[SeqMain] \in {"spawn_a", "spawn_b"}
    /\ qpc' = IF qpc[SeqMain] = "spawn_a"
              THEN [qpc EXCEPT ![SeqMain] = "spawn_b", !["a"] = "start"]
              ELSE [qpc EXCEPT ![SeqMain] = "join_a", !["b"] = "start"]
    /\ UNCHANGED <<IS_THREAD_A_ACCESSING_S, IS_THREAD_B_ACCESSING_S, S, seen, sLocal, printed>>
    /\ UNCHANGED otherThanSeq

\* the spawned thread is scheduled and enters its closure
SeqStart(t) ==
    /\ qpc[t] = "start"
    /\ qpc' = [qpc EXCEPT ![t] = "store"]
    /\ UNCHANGED <<IS_THREAD_A_ACCESSING_S, IS_THREAD_B_ACCESSING_S, S, seen, sLocal, printed>>
    /\ UNCHANGED otherThanSeq

\* IS_THREAD_x_ACCESSING_S.store(true, SeqCst), by thread x
SeqStore(t) ==
    /\ qpc[t] = "store"
    /\ IF t = "a"
       THEN IS_THREAD_A_ACCESSING_S' = TRUE /\ UNCHANGED IS_THREAD_B_ACCESSING_S
       ELSE IS_THREAD_B_ACCESSING_S' = TRUE /\ UNCHANGED IS_THREAD_A_ACCESSING_S
    /\ qpc' = [qpc EXCEPT ![t] = "load"]
    /\ UNCHANGED <<S, seen, sLocal, printed>>
    /\ UNCHANGED otherThanSeq

\* IS_THREAD_y_ACCESSING_S.load(SeqCst), by thread x
SeqLoad(t) ==
    /\ qpc[t] = "load"
    /\ \E b \in LoadFlag(SeqStoreOrder, SeqLoadOrder, OtherFlag(t)) :
          seen' = [seen EXCEPT ![t] = IF b THEN "true" ELSE "false"]
    /\ qpc' = [qpc EXCEPT ![t] = "branch"]
    /\ UNCHANGED <<IS_THREAD_A_ACCESSING_S, IS_THREAD_B_ACCESSING_S, S, sLocal, printed>>
    /\ UNCHANGED otherThanSeq

\* if !.. { .. }: the push is done only when the load returned false
SeqBranch(t) ==
    /\ qpc[t] = "branch"
    /\ qpc' = [qpc EXCEPT ![t] = IF seen[t] = "false" THEN "push_read" ELSE "return"]
    /\ UNCHANGED <<IS_THREAD_A_ACCESSING_S, IS_THREAD_B_ACCESSING_S, S, seen, sLocal, printed>>
    /\ UNCHANGED otherThanSeq

\* the closure returns and the thread ends
SeqReturn(t) ==
    /\ qpc[t] = "return"
    /\ qpc' = [qpc EXCEPT ![t] = "done"]
    /\ UNCHANGED <<IS_THREAD_A_ACCESSING_S, IS_THREAD_B_ACCESSING_S, S, seen, sLocal, printed>>
    /\ UNCHANGED otherThanSeq

\* S.push_str(..): the String is read
SeqPushRead(t) ==
    /\ qpc[t] = "push_read"
    /\ sLocal' = [sLocal EXCEPT ![t] = S]
    /\ qpc' = [qpc EXCEPT ![t] = "push_write"]
    /\ UNCHANGED <<IS_THREAD_A_ACCESSING_S, IS_THREAD_B_ACCESSING_S, S, seen, printed>>
    /\ UNCHANGED otherThanSeq

\* S.push_str(..): the String is written
SeqPushWrite(t) ==
    /\ qpc[t] = "push_write"
    /\ S' = Append(sLocal[t], t)
    /\ qpc' = [qpc EXCEPT ![t] = "return"]
    /\ UNCHANGED <<IS_THREAD_A_ACCESSING_S, IS_THREAD_B_ACCESSING_S, seen, sLocal, printed>>
    /\ UNCHANGED otherThanSeq

\* a.join().unwrap(), then b.join().unwrap()
SeqJoin ==
    /\ \/ qpc[SeqMain] = "join_a" /\ qpc["a"] = "done"
          /\ qpc' = [qpc EXCEPT ![SeqMain] = "join_b"]
       \/ qpc[SeqMain] = "join_b" /\ qpc["b"] = "done"
          /\ qpc' = [qpc EXCEPT ![SeqMain] = "print"]
    /\ UNCHANGED <<IS_THREAD_A_ACCESSING_S, IS_THREAD_B_ACCESSING_S, S, seen, sLocal, printed>>
    /\ UNCHANGED otherThanSeq

\* println!("{}", unsafe { S.as_str() })
SeqPrint ==
    /\ qpc[SeqMain] = "print"
    /\ printed' = S
    /\ qpc' = [qpc EXCEPT ![SeqMain] = "done"]
    /\ UNCHANGED <<IS_THREAD_A_ACCESSING_S, IS_THREAD_B_ACCESSING_S, S, seen, sLocal>>
    /\ UNCHANGED otherThanSeq

NextSeq ==
    \/ SeqSpawn
    \/ \E t \in SeqThreads : SeqStart(t)
    \/ \E t \in SeqThreads : SeqStore(t)
    \/ \E t \in SeqThreads : SeqLoad(t)
    \/ \E t \in SeqThreads : SeqBranch(t)
    \/ \E t \in SeqThreads : SeqReturn(t)
    \/ \E t \in SeqThreads : SeqPushRead(t)
    \/ \E t \in SeqThreads : SeqPushWrite(t)
    \/ SeqJoin
    \/ SeqPrint

\* the threads whose load returned false: they modify, or have modified, S
Modifiers == {t \in SeqThreads : seen[t] = "false"}

\* C21: in the seqcst flag protocol (store true to the own flag, load the other
\* thread's flag, modify S only if the load returned false, all SeqCst), in every
\* interleaving at most one of a and b modifies S; neither may.
C21_AtMostOneModifies ==
    /\ Cardinality(Modifiers) <= 1
    /\ Len(S) <= 1
    /\ \A t \in SeqThreads :
          /\ qpc[t] \in {"push_read", "push_write"} => t \in Modifiers
          /\ (\E i \in DOMAIN S : S[i] = t) => t \in Modifiers
    /\ \A t \in SeqThreads : qpc[t] = "push_write" => sLocal[t] = S /\ S = <<>>
    /\ qpc[SeqMain] = "done" => printed = S

\* C21 witness: both threads have run, each found the other's flag raised, and main
\* printed an S that neither modified
C21_Witness ==
    /\ qpc[SeqMain] = "done"
    /\ IS_THREAD_A_ACCESSING_S /\ IS_THREAD_B_ACCESSING_S
    /\ \A t \in SeqThreads : seen[t] = "true"
    /\ S = <<>> /\ printed = <<>>

\* ------------------------------------------------------------- ch5: SimpleChannel
InitSimple ==
    /\ queue = <<>>
    /\ sentLog = <<>>
    /\ recvLog = <<>>
    /\ waiting = FALSE

\* VecDeque::push_front
PushFront(q, v) == <<v>> \o q

\* SimpleChannel::send: lock, push_front, notify_one. It takes &mut self, so no receive
\* is inside message_ready.wait when it runs and notify_one wakes nobody
SimpleChannel_send(v) ==
    /\ ~waiting
    /\ Len(sentLog) < MaxSends
    /\ queue' = PushFront(queue, v)
    /\ sentLog' = Append(sentLog, v)
    /\ UNCHANGED <<recvLog, waiting>>
    /\ UNCHANGED otherThanSimple

\* SimpleChannel::receive: lock, then pop_front; on an empty queue it waits on
\* message_ready, and as it holds &mut self no send can follow: it waits for ever
SimpleChannel_receive ==
    /\ ~waiting
    /\ IF queue # <<>>
       THEN /\ recvLog' = Append(recvLog, Head(queue))
            /\ queue' = Tail(queue)
            /\ UNCHANGED waiting
       ELSE /\ waiting' = TRUE
            /\ UNCHANGED <<queue, recvLog>>
    /\ UNCHANGED sentLog
    /\ UNCHANGED otherThanSimple

NextSimple ==
    \/ \E v \in Payload : SimpleChannel_send(v)
    \/ SimpleChannel_receive

\* C22: SimpleChannel delivers in sending order: the k-th value returned by receive is
\* the k-th value passed to send, and no message is lost or delivered twice.
C22_Fifo ==
    /\ Len(recvLog) <= Len(sentLog)
    /\ Len(queue) = Len(sentLog) - Len(recvLog)
    /\ \A k \in DOMAIN recvLog : recvLog[k] = sentLog[k]

Init == InitLock /\ InitChan /\ InitSplit /\ InitExit /\ InitUnsafe /\ InitSeq /\ InitSimple

SpecLock == Init /\ [][NextLock]_vars

SpecLockFair == Init /\ [][NextLock]_vars /\ LockFairness

SpecPanicFair == Init /\ [][NextPanic]_vars /\ PanicFairness

SpecPoison == Init /\ [][NextPoison]_vars

SpecChannel == Init /\ [][NextChannel]_vars

SpecSplit == Init /\ [][NextSplit]_vars
SpecUnchecked == Init /\ [][NextUnchecked]_vars
SpecUnsafe == Init /\ [][NextUnsafe]_vars
SpecSeq == Init /\ [][NextSeq]_vars
SpecSimple == Init /\ [][NextSimple]_vars

=============================================================================
